---- MODULE Spec2Model ----
(***************************************************************************)
(* Model of app/components/Sharing/Document/DocumentMemberList.tsx:        *)
(* the DocumentMembersList component, its two fetches on mount, its three  *)
(* mutation handlers and its two display orders.                           *)
(***************************************************************************)
EXTENDS Integers, Sequences, FiniteSets, TLC

\* ---------------------------------------------------------------------
\* Bounds
\* ---------------------------------------------------------------------
\* Number of handler invocations (user interactions) in one behaviour.
MaxTasks == 2

\* ---------------------------------------------------------------------
\* Fixed world of the handler model
\* ---------------------------------------------------------------------
DocumentId == "doc1"
Users == {"u1", "u2"}
Groups == {"g1", "g2"}
UserName == [u \in Users |-> IF u = "u1" THEN "Alice" ELSE "bob"]
\* useCurrentUser(): the acting user.
currentUser == "u1"
\* homePath()
HomePath == "/home"
\* DocumentPermission and the sentinel of the "Remove" entry.
EmptySelectValue == "__empty__"
DocumentPermission == {"read", "read_write", "admin"}
\* The values of the `permissions` options offered by the select.
permissions == DocumentPermission \cup {EmptySelectValue}

VARIABLES
    mounted,      \* the mount effect has run
    userFetch,    \* request state of fetchUserMemberships: idle / pending / resolved
    groupFetch,   \* request state of fetchGroupMemberships
    can,          \* usePolicy(document): [manageUsers, update]
    tasks,        \* the handler invocations so far, in invocation order
    items,            \* display model: document.members / groupMemberships.inDocument(id)
    invitedInSession, \* display model: ids invited during the session
    rendered,         \* display model: the order the rows are rendered in
    sorted            \* display model: the render has computed `rendered`

mainVars == <<mounted, userFetch, groupFetch, can, tasks>>
sortVars == <<items, invitedInSession, rendered, sorted>>
vars == <<mounted, userFetch, groupFetch, can, tasks,
          items, invitedInSession, rendered, sorted>>

\* ---------------------------------------------------------------------
\* useRequest: `loading` is true exactly while the request is in flight.
\* ---------------------------------------------------------------------
Loading(req) == req = "pending"
loadingUserMemberships == Loading(userFetch)
loadingGroupMemberships == Loading(groupFetch)

\* The loading guard of the render function.
LoadingGate_AndMutant == loadingUserMemberships /\ loadingGroupMemberships
LoadingGate == loadingUserMemberships \/ loadingGroupMemberships

View ==
    IF ~mounted THEN "none"
    ELSE IF LoadingGate THEN "loading"
    ELSE "list"

\* ---------------------------------------------------------------------
\* Props handed to the rows
\* ---------------------------------------------------------------------
\* actions={can.manageUsers ? <InputMemberPermissionSelect disabled={!can.update} .../> : null}
GroupSelectProps ==
    IF can.manageUsers
    THEN [rendered |-> TRUE, disabled |-> ~can.update]
    ELSE [rendered |-> FALSE, disabled |-> FALSE]

\* onUpdate={can.manageUsers ? ... : undefined}
OnUpdateOffered_AlwaysMutant == TRUE
OnUpdateOffered == can.manageUsers

\* onLeave={item.id === user.id ? ... : undefined}
OnLeaveOffered(item) == item = currentUser

\* ---------------------------------------------------------------------
\* Store calls and notifications
\* ---------------------------------------------------------------------
UserDeleteCall(item) ==
    [store |-> "userMemberships", op |-> "delete",
     documentId |-> DocumentId, id |-> item, permission |-> "none"]
UserCreateCall(user, permission) ==
    [store |-> "userMemberships", op |-> "create",
     documentId |-> DocumentId, id |-> user, permission |-> permission]
GroupDeleteCall(groupId) ==
    [store |-> "groupMemberships", op |-> "delete",
     documentId |-> DocumentId, id |-> groupId, permission |-> "none"]
GroupCreateCall(groupId, permission) ==
    [store |-> "groupMemberships", op |-> "create",
     documentId |-> DocumentId, id |-> groupId, permission |-> permission]

Toast(type, msg, userName) == [type |-> type, msg |-> msg, userName |-> userName]

NewTask(kind, via, item, perm, call) ==
    [kind |-> kind, via |-> via, item |-> item, perm |-> perm,
     pc |-> "awaiting", outcome |-> "none", calls |-> <<call>>,
     toasts |-> <<>>, navs |-> <<>>, escaped |-> FALSE]

\* ---------------------------------------------------------------------
\* Init
\* ---------------------------------------------------------------------
Init ==
    /\ mounted = FALSE
    /\ userFetch = "idle"
    /\ groupFetch = "idle"
    /\ can \in [manageUsers : BOOLEAN, update : BOOLEAN]
    /\ tasks = <<>>
    /\ items = <<>>
    /\ invitedInSession = {}
    /\ rendered = <<>>
    /\ sorted = FALSE

\* ---------------------------------------------------------------------
\* Mount effect and the two fetches
\* ---------------------------------------------------------------------
\* useEffect: void fetchUserMemberships(); void fetchGroupMemberships();
Mount ==
    /\ ~mounted
    /\ mounted' = TRUE
    /\ userFetch' = "pending"
    /\ groupFetch' = "pending"
    /\ UNCHANGED <<can, tasks, sortVars>>

UserFetchResolves ==
    /\ userFetch = "pending"
    /\ userFetch' = "resolved"
    /\ UNCHANGED <<mounted, groupFetch, can, tasks, sortVars>>

GroupFetchResolves ==
    /\ groupFetch = "pending"
    /\ groupFetch' = "resolved"
    /\ UNCHANGED <<mounted, userFetch, can, tasks, sortVars>>

\* ---------------------------------------------------------------------
\* Handlers: the part up to the await
\* ---------------------------------------------------------------------
CanInvoke == View = "list" /\ Len(tasks) < MaxTasks

\* handleRemoveUser(item) up to `await userMemberships.delete(...)`
HandleRemoveUser(item, via) ==
    tasks' = Append(tasks, NewTask("removeUser", via, item, "none", UserDeleteCall(item)))

\* onRemove={() => handleRemoveUser(item)}
ClickRemove(item) ==
    /\ CanInvoke
    /\ HandleRemoveUser(item, "onRemove")
    /\ UNCHANGED <<mounted, userFetch, groupFetch, can, sortVars>>

\* onLeave={item.id === user.id ? () => handleRemoveUser(item) : undefined}
ClickLeave(item) ==
    /\ CanInvoke
    /\ OnLeaveOffered(item)
    /\ HandleRemoveUser(item, "onLeave")
    /\ UNCHANGED <<mounted, userFetch, groupFetch, can, sortVars>>

\* handleUpdateUser(user, permission) up to `await userMemberships.create(...)`
HandleUpdateUser(user, permission) ==
    tasks' = Append(tasks,
        NewTask("updateUser", "onUpdate", user, permission, UserCreateCall(user, permission)))

ChangeUserPermission(user, permission) ==
    /\ CanInvoke
    /\ OnUpdateOffered
    /\ HandleUpdateUser(user, permission)
    /\ UNCHANGED <<mounted, userFetch, groupFetch, can, sortVars>>

\* The branch of the group select's onChange.
GroupDispatch_SwappedMutant(groupId, permission) ==
    IF permission # EmptySelectValue
    THEN GroupDeleteCall(groupId)
    ELSE GroupCreateCall(groupId, permission)
GroupDispatch(groupId, permission) ==
    IF permission = EmptySelectValue
    THEN GroupDeleteCall(groupId)
    ELSE GroupCreateCall(groupId, permission)

\* onChange of InputMemberPermissionSelect up to the await; the select fires
\* it only when it is rendered and not disabled.
ChangeGroupPermission(groupId, permission) ==
    /\ CanInvoke
    /\ GroupSelectProps.rendered
    /\ ~GroupSelectProps.disabled
    /\ tasks' = Append(tasks,
         NewTask("groupChange", "onChange", groupId, permission,
                 GroupDispatch(groupId, permission)))
    /\ UNCHANGED <<mounted, userFetch, groupFetch, can, sortVars>>

\* ---------------------------------------------------------------------
\* The awaited store call settles
\* ---------------------------------------------------------------------
StoreSettles(i, outcome) ==
    /\ tasks[i].pc = "awaiting"
    /\ tasks' = [tasks EXCEPT ![i].pc = "settled", ![i].outcome = outcome]
    /\ UNCHANGED <<mounted, userFetch, groupFetch, can, sortVars>>

\* ---------------------------------------------------------------------
\* Handlers: the part after the await
\* ---------------------------------------------------------------------
\* if (item.id === user.id)
RemovedSelf_NeverMutant(item) == FALSE
RemovedSelf_AlwaysMutant(item) == TRUE
RemovedSelf(item) == item = currentUser

RemoveUserAfterAwait_FinallyMutant(t) ==
    IF t.outcome = "ok"
    THEN IF RemovedSelf(t.item)
         THEN [t EXCEPT !.pc = "done", !.navs = Append(@, HomePath)]
         ELSE [t EXCEPT !.pc = "done",
                 !.toasts = Append(@, Toast("success", "{{ userName }} was removed from the document",
                                            UserName[t.item]))]
    ELSE [t EXCEPT !.pc = "done",
            !.toasts = Append(@, Toast("error", "Could not remove user", "")),
            !.navs = IF RemovedSelf(t.item) THEN Append(@, HomePath) ELSE @]
RemoveUserAfterAwait(t) ==
    IF t.outcome = "ok"
    THEN IF RemovedSelf(t.item)
         THEN [t EXCEPT !.pc = "done", !.navs = Append(@, HomePath)]
         ELSE [t EXCEPT !.pc = "done",
                 !.toasts = Append(@, Toast("success", "{{ userName }} was removed from the document",
                                            UserName[t.item]))]
    ELSE [t EXCEPT !.pc = "done",
            !.toasts = Append(@, Toast("error", "Could not remove user", ""))]

HandleRemoveUserResumes(i) ==
    /\ tasks[i].kind = "removeUser"
    /\ tasks[i].pc = "settled"
    /\ tasks' = [tasks EXCEPT ![i] = RemoveUserAfterAwait(tasks[i])]
    /\ UNCHANGED <<mounted, userFetch, groupFetch, can, sortVars>>

UpdateUserAfterAwait_NoCatchMutant(t) ==
    [t EXCEPT !.pc = "done",
        !.toasts = Append(@, Toast("success", "Permissions for {{ userName }} updated", UserName[t.item]))]
UpdateUserAfterAwait(t) ==
    IF t.outcome = "ok"
    THEN [t EXCEPT !.pc = "done",
            !.toasts = Append(@, Toast("success", "Permissions for {{ userName }} updated", UserName[t.item]))]
    ELSE [t EXCEPT !.pc = "done",
            !.toasts = Append(@, Toast("error", "Could not update user", ""))]

HandleUpdateUserResumes(i) ==
    /\ tasks[i].kind = "updateUser"
    /\ tasks[i].pc = "settled"
    /\ tasks' = [tasks EXCEPT ![i] = UpdateUserAfterAwait(tasks[i])]
    /\ UNCHANGED <<mounted, userFetch, groupFetch, can, sortVars>>

\* The group onChange has no try/catch: a rejection leaves the handler.
GroupChangeAfterAwait(t) ==
    IF t.outcome = "ok"
    THEN [t EXCEPT !.pc = "done"]
    ELSE [t EXCEPT !.pc = "done", !.escaped = TRUE]

GroupChangeResumes(i) ==
    /\ tasks[i].kind = "groupChange"
    /\ tasks[i].pc = "settled"
    /\ tasks' = [tasks EXCEPT ![i] = GroupChangeAfterAwait(tasks[i])]
    /\ UNCHANGED <<mounted, userFetch, groupFetch, can, sortVars>>

\* ---------------------------------------------------------------------
\* Specification of the component's handlers
\* ---------------------------------------------------------------------
Next ==
    \/ Mount
    \/ UserFetchResolves
    \/ GroupFetchResolves
    \/ \E item \in Users : ClickRemove(item)
    \/ \E item \in Users : ClickLeave(item)
    \/ \E user \in Users, permission \in DocumentPermission :
          ChangeUserPermission(user, permission)
    \/ \E groupId \in Groups, permission \in permissions :
          ChangeGroupPermission(groupId, permission)
    \/ \E i \in DOMAIN tasks, outcome \in {"ok", "fail"} : StoreSettles(i, outcome)
    \/ \E i \in DOMAIN tasks : HandleRemoveUserResumes(i)
    \/ \E i \in DOMAIN tasks : HandleUpdateUserResumes(i)
    \/ \E i \in DOMAIN tasks : GroupChangeResumes(i)

Spec == Init /\ [][Next]_vars

\* =====================================================================
\* Display orders
\* =====================================================================
\* Bounds of the display model.
MaxMembers == 2
MaxNameLen == 2

\* Names are sequences of UTF-16 code units: '1' = 49, 'B' = 66, '_' = 95,
\* 'a' = 97, 'b' = 98.
Underscore == 95
NameChars == {49, 66, 95, 97}
SortIds == {"i1", "i2", "i3"}

Names == UNION {[1..n -> NameChars] : n \in 1..MaxNameLen}
Entries == [id : SortIds, name : Names]

DistinctIds(list) ==
    \A i, j \in DOMAIN list : i # j => list[i].id # list[j].id

Lists == {l \in UNION {[1..n -> Entries] : n \in 0..MaxMembers} : DistinctIds(l)}

IsUpper(c) == c >= 65 /\ c <= 90
IsLower(c) == c >= 97 /\ c <= 122
IsDigit(c) == c >= 48 /\ c <= 57

\* String.prototype.toLocaleLowerCase on the modelled characters.
ToLocaleLowerCase(str) == [i \in DOMAIN str |-> IF IsUpper(str[i]) THEN str[i] + 32 ELSE str[i]]

\* The relational `<` of two strings: lexicographic on code units.
RECURSIVE StrLess(_, _)
StrLess(a, b) ==
    IF b = <<>> THEN FALSE
    ELSE IF a = <<>> THEN TRUE
    ELSE IF a[1] # b[1] THEN a[1] < b[1]
    ELSE StrLess(Tail(a), Tail(b))

\* The session prefix both orders prepend to an invited entry.
SessionPrefix(id) == IF id \in invitedInSession THEN <<Underscore>> ELSE <<>>

\* The iteratee handed to orderBy for the members.
MemberKey(user) == SessionPrefix(user.id) \o ToLocaleLowerCase(user.name)

\* lodash orderBy(collection, iteratee, "asc"): a stable sort by the key,
\* strings compared with `<` / `>`, ties kept in input order.
RECURSIVE InsertByKey(_, _)
InsertByKey(done, x) ==
    IF done = <<>> THEN <<x>>
    ELSE LET last == done[Len(done)] IN
         IF StrLess(MemberKey(x), MemberKey(last))
         THEN Append(InsertByKey(SubSeq(done, 1, Len(done) - 1), x), last)
         ELSE Append(done, x)

RECURSIVE OrderBy(_)
OrderBy(list) ==
    IF list = <<>> THEN <<>>
    ELSE InsertByKey(OrderBy(SubSeq(list, 1, Len(list) - 1)), list[Len(list)])

InitMembers ==
    /\ mounted = TRUE
    /\ userFetch = "resolved"
    /\ groupFetch = "resolved"
    /\ can = [manageUsers |-> TRUE, update |-> TRUE]
    /\ tasks = <<>>
    /\ items \in Lists
    /\ invitedInSession \in SUBSET SortIds
    /\ rendered = <<>>
    /\ sorted = FALSE

\* const members = useMemo(() => orderBy(document.members, ...))
RenderMembers ==
    /\ ~sorted
    /\ View = "list"
    /\ rendered' = OrderBy(items)
    /\ sorted' = TRUE
    /\ UNCHANGED <<mainVars, items, invitedInSession>>

NextMembers == RenderMembers

SpecMembers == InitMembers /\ [][NextMembers]_vars

\* ---------------------------------------------------------------------
\* Group order: Array.prototype.sort with the localeCompare comparator
\* ---------------------------------------------------------------------
\* Collation of String.prototype.localeCompare on the modelled characters:
\* punctuation before digits before letters, letters by alphabet first and
\* lower case before upper case only to break a tie.
Primary(c) ==
    IF c = Underscore THEN 1
    ELSE IF IsDigit(c) THEN 2 + (c - 48)
    ELSE IF IsUpper(c) THEN 20 + (c - 65)
    ELSE 20 + (c - 97)
Tertiary(c) == IF IsUpper(c) THEN 1 ELSE 0

RECURSIVE SeqCompare(_, _)
SeqCompare(a, b) ==
    IF a = <<>> /\ b = <<>> THEN 0
    ELSE IF a = <<>> THEN -1
    ELSE IF b = <<>> THEN 1
    ELSE IF a[1] < b[1] THEN -1
    ELSE IF a[1] > b[1] THEN 1
    ELSE SeqCompare(Tail(a), Tail(b))

LocaleCompare(x, y) ==
    LET p == SeqCompare([i \in DOMAIN x |-> Primary(x[i])], [i \in DOMAIN y |-> Primary(y[i])])
    IN IF p # 0 THEN p
       ELSE SeqCompare([i \in DOMAIN x |-> Tertiary(x[i])], [i \in DOMAIN y |-> Tertiary(y[i])])

\* (a, b) => ((invitedInSession.includes(a.group.id) ? "_" : "") + a.group.name)
\*             .localeCompare(b.group.name)
GroupComparator(a, b) == LocaleCompare(SessionPrefix(a.id) \o a.name, b.name)

\* Array.prototype.sort leaves to the engine which of two elements it hands
\* to the comparator first: x is placed before y when either call says so.
PlacedBefore(x, y) == {GroupComparator(x, y) < 0, GroupComparator(y, x) > 0}

RECURSIVE InsertOutcomes(_, _, _)
InsertOutcomes(done, x, j) ==
    IF j = 0 THEN {<<x>> \o done}
    ELSE UNION {
           IF before
           THEN InsertOutcomes(done, x, j - 1)
           ELSE {SubSeq(done, 1, j) \o <<x>> \o SubSeq(done, j + 1, Len(done))}
           : before \in PlacedBefore(x, done[j]) }

RECURSIVE SortOutcomes(_)
SortOutcomes(list) ==
    IF list = <<>> THEN {<<>>}
    ELSE UNION { InsertOutcomes(done, list[Len(list)], Len(done))
                 : done \in SortOutcomes(SubSeq(list, 1, Len(list) - 1)) }

InitGroups == InitMembers

\* groupMemberships.inDocument(document.id).sort(...).map(...)
RenderGroups ==
    /\ ~sorted
    /\ View = "list"
    /\ \E result \in SortOutcomes(items) : rendered' = result
    /\ sorted' = TRUE
    /\ UNCHANGED <<mainVars, items, invitedInSession>>

NextGroups == RenderGroups

SpecGroups == InitGroups /\ [][NextGroups]_vars

\* ---------------------------------------------------------------------
\* What the claims mean by the display order
\* ---------------------------------------------------------------------
Invited(e) == e.id \in invitedInSession

\* Every invited entry is rendered before every entry that is not.
InvitedFirst(list) ==
    \A i, j \in DOMAIN list : (Invited(list[i]) /\ ~Invited(list[j])) => i < j

\* Within a partition, names ascend when compared lower-cased.
PartitionsAscending(list) ==
    \A i, j \in DOMAIN list :
        (i < j /\ Invited(list[i]) = Invited(list[j]))
            => ~StrLess(ToLocaleLowerCase(list[j].name), ToLocaleLowerCase(list[i].name))

\* Within a partition, names ascend in the collation with case ignored.
PartitionsCollated(list) ==
    \A i, j \in DOMAIN list :
        (i < j /\ Invited(list[i]) = Invited(list[j]))
            => LocaleCompare(ToLocaleLowerCase(list[i].name),
                             ToLocaleLowerCase(list[j].name)) <= 0

\* C1: in the rendered members order every user invited in the session comes
\* before every user who was not, and each partition ascends by lower-cased
\* name, for all names.
C1_MemberOrdering ==
    sorted => (InvitedFirst(rendered) /\ PartitionsAscending(rendered))

\* C2: in the rendered group order every membership invited in the session
\* comes before every membership that was not, and each partition is ordered
\* case-insensitively by group name, whatever the input order and whichever
\* element the sort hands to the comparator first.
C2_GroupOrdering ==
    sorted => (InvitedFirst(rendered) /\ PartitionsCollated(rendered))

\* =====================================================================
\* Properties of the handlers
\* =====================================================================
TasksOf(kind) == {i \in DOMAIN tasks : tasks[i].kind = kind}

RemovedToast(item) == Toast("success", "{{ userName }} was removed from the document", UserName[item])

\* C3: when handleRemoveUser(item) runs and the delete succeeds, removing
\* oneself navigates to the home path without a success notification, removing
\* someone else shows the success notification naming item.name without
\* navigating; exactly one of the two happens, and nothing happens before the
\* delete has resolved and the handler has resumed.
C3_RemoveSuccessBranches ==
    \A i \in TasksOf("removeUser") :
        LET t == tasks[i] IN
        /\ t.calls = <<UserDeleteCall(t.item)>>
        /\ t.pc # "done" => (t.navs = <<>> /\ t.toasts = <<>>)
        /\ (t.pc = "done" /\ t.outcome = "ok") =>
              IF t.item = currentUser
              THEN t.navs = <<HomePath>> /\ t.toasts = <<>>
              ELSE t.navs = <<>> /\ t.toasts = <<RemovedToast(t.item)>>

C3_Witness ==
    /\ \E i \in TasksOf("removeUser") :
          tasks[i].pc = "done" /\ tasks[i].outcome = "ok" /\ tasks[i].item = currentUser
    /\ \E i \in TasksOf("removeUser") :
          tasks[i].pc = "done" /\ tasks[i].outcome = "ok" /\ tasks[i].item # currentUser

\* C4: for each of the three mutation operations, a rejected store call does
\* not leave the handler and an error notification is shown.
C4_FailuresCaught ==
    \A i \in DOMAIN tasks :
        (tasks[i].pc = "done" /\ tasks[i].outcome = "fail") =>
            /\ ~tasks[i].escaped
            /\ \E k \in DOMAIN tasks[i].toasts : tasks[i].toasts[k].type = "error"

\* C5: a change of the group select to p makes exactly one store call:
\* groupMemberships.delete(document.id, groupId) when p is EmptySelectValue,
\* groupMemberships.create(document.id, groupId, p) when p is a permission.
C5_GroupDispatch ==
    \A i \in TasksOf("groupChange") :
        LET t == tasks[i] IN
        /\ Len(t.calls) = 1
        /\ t.calls[1].store = "groupMemberships"
        /\ t.calls[1].documentId = DocumentId
        /\ t.calls[1].id = t.item
        /\ t.perm = EmptySelectValue => t.calls[1].op = "delete"
        /\ t.perm \in DocumentPermission =>
              (t.calls[1].op = "create" /\ t.calls[1].permission = t.perm)

C5_Witness ==
    /\ \E i \in TasksOf("groupChange") :
          tasks[i].perm = EmptySelectValue /\ tasks[i].pc = "done"
    /\ \E i \in TasksOf("groupChange") :
          tasks[i].perm \in DocumentPermission /\ tasks[i].pc = "done"

\* C6: from mount onward, whichever fetch resolves first, the loading
\* indicator is rendered exactly as long as one of the two fetches has not
\* resolved, and the list once both have; the mount starts both fetches.
C6_LoadingGate ==
    mounted =>
        /\ userFetch # "idle" /\ groupFetch # "idle"
        /\ View = "loading" <=> (userFetch # "resolved" \/ groupFetch # "resolved")
        /\ View = "list" <=> (userFetch = "resolved" /\ groupFetch = "resolved")

C6_Witness ==
    /\ mounted
    /\ userFetch = "pending"
    /\ groupFetch = "resolved"
    /\ View = "loading"

\* C7: handleUpdateUser(user, permission) calls userMemberships.create once
\* with document.id, user.id and the permission passed in; success shows one
\* success notification and no error, failure one error and no success.
C7_UpdateUser ==
    \A i \in TasksOf("updateUser") :
        LET t == tasks[i] IN
        /\ t.calls = <<UserCreateCall(t.item, t.perm)>>
        /\ t.pc # "done" => t.toasts = <<>>
        /\ (t.pc = "done" /\ t.outcome = "ok") =>
              (Len(t.toasts) = 1 /\ t.toasts[1].type = "success"
               /\ t.toasts[1].userName = UserName[t.item])
        /\ (t.pc = "done" /\ t.outcome = "fail") =>
              (Len(t.toasts) = 1 /\ t.toasts[1].type = "error")
        /\ t.navs = <<>> /\ ~t.escaped

C7_Witness ==
    /\ \E i \in TasksOf("updateUser") : tasks[i].pc = "done" /\ tasks[i].outcome = "ok"
    /\ \E i \in TasksOf("updateUser") : tasks[i].pc = "done" /\ tasks[i].outcome = "fail"

\* C8: when the delete of handleRemoveUser(item) rejects, that invocation
\* shows exactly one error notification and no success notification, does not
\* navigate even when item is the current user, does not call delete again,
\* and the handler completes.
C8_RemoveFailureTerminal ==
    \A i \in TasksOf("removeUser") :
        LET t == tasks[i] IN
        t.outcome = "fail" =>
            /\ Len(t.calls) = 1
            /\ t.navs = <<>>
            /\ ~t.escaped
            /\ t.pc = "settled" => ENABLED HandleRemoveUserResumes(i)
            /\ t.pc = "done" => t.toasts = <<Toast("error", "Could not remove user", "")>>

C8_Witness ==
    \E i \in TasksOf("removeUser") :
        tasks[i].pc = "done" /\ tasks[i].outcome = "fail" /\ tasks[i].item = currentUser

\* C9: while can.manageUsers is false no group select is rendered and no
\* onUpdate handler is passed, so no groupMemberships.create,
\* groupMemberships.delete or userMemberships.create is ever dispatched; with
\* can.manageUsers true and can.update false the group select is disabled.
C9_PolicyGating ==
    /\ ~can.manageUsers =>
          /\ ~GroupSelectProps.rendered
          /\ ~OnUpdateOffered
          /\ \A i \in DOMAIN tasks : \A k \in DOMAIN tasks[i].calls :
                /\ tasks[i].calls[k].store # "groupMemberships"
                /\ tasks[i].calls[k].op # "create"
    /\ (can.manageUsers /\ ~can.update) =>
          (GroupSelectProps.rendered /\ GroupSelectProps.disabled)

C9_Witness ==
    /\ ~can.manageUsers
    /\ View = "list"
    /\ Len(tasks) = MaxTasks
    /\ \A i \in DOMAIN tasks : tasks[i].pc = "done"

\* C10: over any interleaving of the three operations, a navigation to the
\* home path happens only after a userMemberships.delete for the current
\* user's own id has resolved successfully; onLeave is offered on a row if and
\* only if the row's user is the current user.
C10_NavigationOnlyOnSelfRemoval ==
    /\ \A i \in DOMAIN tasks :
          tasks[i].navs # <<>> =>
              /\ tasks[i].navs = <<HomePath>>
              /\ tasks[i].calls = <<UserDeleteCall(currentUser)>>
              /\ tasks[i].outcome = "ok"
    /\ \A item \in Users : OnLeaveOffered(item) <=> item = currentUser
    /\ \A i \in DOMAIN tasks : tasks[i].via = "onLeave" => tasks[i].item = currentUser

C10_Witness ==
    \E i, j \in DOMAIN tasks :
        /\ tasks[i].navs = <<HomePath>>
        /\ tasks[i].via = "onLeave"
        /\ j < i
        /\ tasks[j].kind # "removeUser"
        /\ tasks[j].pc = "awaiting"
====
